---- MODULE Spec2Model ----
(***************************************************************************)
(* Conway's Game of Life notebook of pydeck's examples: the board helpers  *)
(* (new_board, get, assign, count_neighbors, process_life), the two        *)
(* convert_board_to_df functions and the update loop of the animation.     *)
(*                                                                         *)
(* A board is a Python list of rows, each row a list of cells; it is a     *)
(* sequence of sequences here, so Python's index k is index k + 1.         *)
(* A Python evaluation either returns a value or raises: its outcome is a  *)
(* record [exc, val], exc = "" when it returned val.                       *)
(***************************************************************************)
EXTENDS Integers, Sequences, FiniteSets, TLC

\* ------------------------------------------------------------ bounds
\* Boards given to the functions have at most MaxW columns, MaxH rows and
\* MaxCells cells.
MaxW == 4
MaxH == 3
MaxCells == 9
\* Coordinates passed to get and assign range over -MaxCoord..MaxCoord.
MaxCoord == 4
\* Values passed to assign range over 0..MaxValue.
MaxValue == 2
\* random.choice is a bit stream that repeats after RandomPeriod draws.
RandomPeriod == 3
\* The animated board is BoardSide x BoardSide (the notebook's is 30 x 30).
BoardSide == 3
\* Iteration numbers passed to the stacked convert_board_to_df.
MaxIteration == 2

\* ------------------------------------------------------------ constants
NUM_ITERATIONS == 100
PINK == <<155, 155, 255, 245>>
PURPLE == <<255, 155, 255, 245>>
BLACK == <<0, 0, 0, 255>>

VARIABLES
    board,        \* the notebook's global `board`
    records,      \* the notebook's global `records`
    layer_data,   \* layer.data
    updates,      \* the number of r.update() calls made so far
    i,            \* the loop variable of the update loop
    pc,           \* the statement the update loop executes next
    shown_board,  \* the board whose records r.show() displayed
    call          \* the last function call made, with its outcome

vars == <<board, records, layer_data, updates, i, pc, shown_board, call>>

\* ------------------------------------------------------------ Python
Ok(v) == [exc |-> "", val |-> v]
Raise(e) == [exc |-> e, val |-> 0]

\* a % b of Python ints, b > 0: the remainder of floor division.
PyMod(a, b) == a - b * (a \div b)

\* list[k]: negative k counts from the end; out of range raises.
getitem(list, k) ==
    IF k >= 0 /\ k < Len(list) THEN Ok(list[k + 1])
    ELSE IF k < 0 /\ k >= -Len(list) THEN Ok(list[Len(list) + k + 1])
    ELSE Raise("IndexError")

\* list[k] = v, as the list afterwards.
setitem(list, k, v) ==
    IF k >= 0 /\ k < Len(list) THEN Ok([list EXCEPT ![k + 1] = v])
    ELSE IF k < 0 /\ k >= -Len(list)
         THEN Ok([list EXCEPT ![Len(list) + k + 1] = v])
    ELSE Raise("IndexError")

\* x / 1000.0, as the fraction <<numerator, denominator>>.
Milli(x) == <<x, 1000>>

\* bool(v) of a Python int.
Truthy(v) == v # 0

\* ------------------------------------------------------------ new_board
\* The outcomes of the successive random.choice draws.
Streams == [1..RandomPeriod -> {0, 1}]

new_board(x, y, rnd) ==
    [r \in 1..y |-> [c \in 1..x |->
        rnd[PyMod((r - 1) * x + (c - 1), RandomPeriod) + 1]]]

\* Every rectangular 0/1 board within the bounds.
Boards ==
    UNION {[1..h -> [1..w -> {0, 1}]] :
           <<w, h>> \in {d \in (1..MaxW) \X (1..MaxH) : d[1] * d[2] <= MaxCells}}

Width(b) == Len(b[1])
Height(b) == Len(b)

\* ------------------------------------------------------------ get, assign
get_nowrap(b, x, y) ==
    LET row == getitem(b, y)
    IN  IF row.exc # "" THEN row ELSE getitem(row.val, x)

get(b, x, y) ==
    LET row == getitem(b, PyMod(y, Len(b)))
        first == getitem(b, 0)
    IN  IF row.exc # "" THEN row
        ELSE IF first.exc # "" THEN first
        ELSE getitem(row.val, PyMod(x, Len(first.val)))

assign_norowwrap(b, x, y, value) ==
    LET row == getitem(b, y)
        first == getitem(b, 0)
    IN  IF row.exc # "" THEN row
        ELSE IF first.exc # "" THEN first
        ELSE LET new == setitem(row.val, PyMod(x, Len(first.val)), value)
             IN  IF new.exc # "" THEN new
                 ELSE setitem(b, y, new.val)

\* The board after the assignment (the call mutates it in place).
assign(b, x, y, value) ==
    LET row == getitem(b, PyMod(y, Len(b)))
        first == getitem(b, 0)
    IN  IF row.exc # "" THEN row
        ELSE IF first.exc # "" THEN first
        ELSE LET new == setitem(row.val, PyMod(x, Len(first.val)), value)
             IN  IF new.exc # "" THEN new
                 ELSE setitem(b, PyMod(y, Len(b)), new.val)

\* ------------------------------------------------------------ count_neighbors
\* sum(list) of a list of outcomes: the first raise, or the total.
RECURSIVE sum(_)
sum(rs) ==
    IF rs = <<>> THEN Ok(0)
    ELSE IF Head(rs).exc # "" THEN Head(rs)
    ELSE LET rest == sum(Tail(rs))
         IN  IF rest.exc # "" THEN rest ELSE Ok(Head(rs).val + rest.val)

count_neighbors_nodiag(b, x, y) ==
    sum(<<get(b, x - 1, y),
          get(b, x + 1, y),
          get(b, x, y - 1),
          get(b, x, y + 1),
          get(b, x + 1, y + 1),
          get(b, x + 1, y - 1),
          get(b, x - 1, y + 1)>>)

count_neighbors(b, x, y) ==
    sum(<<get(b, x - 1, y),
          get(b, x + 1, y),
          get(b, x, y - 1),
          get(b, x, y + 1),
          get(b, x + 1, y + 1),
          get(b, x + 1, y - 1),
          get(b, x - 1, y + 1),
          get(b, x - 1, y - 1)>>)

\* ------------------------------------------------------------ process_life
\* The value the if/elif chain assigns to a cell.
life_rule(num_neighbors, is_alive) ==
    IF num_neighbors < 2 /\ is_alive THEN 0
    ELSE IF 2 <= num_neighbors /\ num_neighbors <= 3 /\ is_alive THEN 1
    ELSE IF num_neighbors > 3 /\ is_alive THEN 0
    ELSE IF num_neighbors = 3 /\ ~is_alive THEN 1
    ELSE 0

\* The two nested loops from cell number k on (k = y * width + x), reading
\* b and writing next_board.  (The set of one element binds the board after
\* the assignment as a value, as the statement's completion does.)
RECURSIVE life_loop(_, _, _)
life_loop(b, next_board, k) ==
    IF k >= Len(b) * Len(b[1]) THEN Ok(next_board)
    ELSE LET y == k \div Len(b[1])
             x == k % Len(b[1])
             num_neighbors == count_neighbors(b, x, y)
             cell == get(b, x, y)
         IN  IF num_neighbors.exc # "" THEN num_neighbors
             ELSE IF cell.exc # "" THEN cell
             ELSE CHOOSE out \in
                      {IF written.exc # "" THEN written
                       ELSE life_loop(b, written.val, k + 1) :
                       written \in {assign(next_board, x, y,
                                           life_rule(num_neighbors.val, cell.val = 1))}} :
                      TRUE

\* The loops with next_board and board the same list: each cell reads the
\* cells written before it.
RECURSIVE life_loop_inplace(_, _)
life_loop_inplace(b, k) ==
    IF k >= Len(b) * Len(b[1]) THEN Ok(b)
    ELSE LET y == k \div Len(b[1])
             x == k % Len(b[1])
             num_neighbors == count_neighbors(b, x, y)
             cell == get(b, x, y)
         IN  IF num_neighbors.exc # "" THEN num_neighbors
             ELSE IF cell.exc # "" THEN cell
             ELSE CHOOSE out \in
                      {IF written.exc # "" THEN written
                       ELSE life_loop_inplace(written.val, k + 1) :
                       written \in {assign(b, x, y,
                                           life_rule(num_neighbors.val, cell.val = 1))}} :
                      TRUE

process_life_inplace(b, rnd) == life_loop_inplace(b, 0)

process_life(b, rnd) ==
    life_loop(b, new_board(Len(b[1]), Len(b), rnd), 0)

\* ------------------------------------------------------------ convert_board_to_df
\* pd.DataFrame(rows, columns=['position', 'color']).to_dict(orient='records')
to_records(rows) ==
    [k \in 1..Len(rows) |-> [position |-> rows[k][1], color |-> rows[k][2]]]

\* The rows appended from pair number k on, x the outer and y the inner loop
\* (k = x * height + y).
RECURSIVE convert_rows(_, _, _)
convert_rows(b, rows, k) ==
    IF k >= Len(b[1]) * Len(b) THEN rows
    ELSE LET x == k \div Len(b)
             y == k % Len(b)
         IN  convert_rows(b,
                 Append(rows, <<<<Milli(x), Milli(y)>>,
                                IF Truthy(b[y + 1][x + 1]) THEN PURPLE ELSE PINK>>),
                 k + 1)

\* The same with y the outer and x the inner loop.
RECURSIVE convert_rows_rowmajor(_, _, _)
convert_rows_rowmajor(b, rows, k) ==
    IF k >= Len(b[1]) * Len(b) THEN rows
    ELSE LET y == k \div Len(b[1])
             x == k % Len(b[1])
         IN  convert_rows_rowmajor(b,
                 Append(rows, <<<<Milli(x), Milli(y)>>,
                                IF Truthy(b[y + 1][x + 1]) THEN PURPLE ELSE PINK>>),
                 k + 1)

convert_board_to_df_rowmajor(b) == Ok(to_records(convert_rows_rowmajor(b, <<>>, 0)))

convert_board_to_df(b) == Ok(to_records(convert_rows(b, <<>>, 0)))

\* The names bound when the stacking cell runs, with their values.
StackGlobals ==
    [PINK |-> PINK, PURPLE |-> PURPLE, BLACK |-> BLACK]

\* Reading a global name: an unbound one raises NameError.
load_name(n) ==
    IF n \in DOMAIN StackGlobals THEN Ok(StackGlobals[n]) ELSE Raise("NameError")

RECURSIVE convert_rows_stacked(_, _, _, _)
convert_rows_stacked(b, iteration, rows, k) ==
    IF k >= Len(b[1]) * Len(b) THEN Ok(rows)
    ELSE LET x == k \div Len(b)
             y == k % Len(b)
             color == IF Truthy(b[y + 1][x + 1]) THEN load_name("PURPLE")
                      ELSE load_name("TRANSPARENT")
         IN  IF color.exc # "" THEN color
             ELSE convert_rows_stacked(b, iteration,
                      Append(rows, <<<<Milli(x), Milli(y), <<iteration * 1000, 1>>>>,
                                     color.val>>),
                      k + 1)

convert_board_to_df_stacked(b, iteration) ==
    LET rows == convert_rows_stacked(b, iteration, <<>>, 0)
    IN  IF rows.exc # "" THEN rows ELSE Ok(to_records(rows.val))

\* ------------------------------------------------------------ calls
NoCall == [fn |-> "none"]
Coords == (-MaxCoord)..MaxCoord

\* The state before any call: a board, and nothing shown yet.
InitCalls ==
    /\ board \in Boards
    /\ records = <<>>
    /\ layer_data = <<>>
    /\ updates = 0
    /\ i = 0
    /\ pc = "idle"
    /\ shown_board = <<>>
    /\ call = NoCall

\* get(board, x, y), once on the board drawn
Get ==
    /\ call = NoCall
    /\ \E x \in Coords, y \in Coords :
        /\ call' = [fn |-> "get", x |-> x, y |-> y, ret |-> get(board, x, y)]
        /\ UNCHANGED <<board, records, layer_data, updates, i, pc, shown_board>>

\* assign(board, x, y, value), once on the board drawn
Assign ==
    /\ call = NoCall
    /\ \E x \in Coords, y \in Coords, value \in 0..MaxValue :
        \E out \in {assign(board, x, y, value)} :
            /\ call' = [fn |-> "assign", x |-> x, y |-> y, value |-> value,
                        before |-> board, exc |-> out.exc]
            /\ board' = IF out.exc = "" THEN out.val ELSE board
            /\ UNCHANGED <<records, layer_data, updates, i, pc, shown_board>>

\* count_neighbors(board, x, y) for a cell of the board
CountNeighbors ==
    \E y \in 0..(Len(board) - 1) :
        \E x \in 0..(Len(board[y + 1]) - 1) :
            /\ call' = [fn |-> "count_neighbors", x |-> x, y |-> y,
                        ret |-> count_neighbors(board, x, y)]
            /\ UNCHANGED <<board, records, layer_data, updates, i, pc, shown_board>>

\* board = process_life(board)
ProcessLife ==
    \E rnd \in Streams :
        \E out \in {process_life(board, rnd)} :
            /\ call' = [fn |-> "process_life", before |-> board, exc |-> out.exc]
            /\ board' = IF out.exc = "" THEN out.val ELSE board
            /\ UNCHANGED <<records, layer_data, updates, i, pc, shown_board>>

\* records = convert_board_to_df(board)
ConvertBoard ==
    \E out \in {convert_board_to_df(board)} :
        /\ call' = [fn |-> "convert_board_to_df", exc |-> out.exc]
        /\ records' = IF out.exc = "" THEN out.val ELSE records
        /\ UNCHANGED <<board, layer_data, updates, i, pc, shown_board>>

\* records = convert_board_to_df(board, iteration), the stacking cell's function
ConvertBoardStacked ==
    \E iteration \in 0..MaxIteration :
        \E out \in {convert_board_to_df_stacked(board, iteration)} :
            /\ call' = [fn |-> "convert_board_to_df_stacked",
                        iteration |-> iteration, exc |-> out.exc]
            /\ records' = IF out.exc = "" THEN out.val ELSE records
            /\ UNCHANGED <<board, layer_data, updates, i, pc, shown_board>>

SpecGet == InitCalls /\ [][Get]_vars
SpecAssign == InitCalls /\ [][Assign]_vars
SpecCount == InitCalls /\ [][CountNeighbors]_vars
SpecLife == InitCalls /\ [][ProcessLife]_vars
SpecConvert == InitCalls /\ [][ConvertBoard]_vars
SpecStack == InitCalls /\ [][ConvertBoardStacked]_vars

\* ------------------------------------------------------------ the update loop
\* The state after the cell that shows the deck: board = new_board(30, 30),
\* records = convert_board_to_df(board), a layer holding them, r.show().
Init ==
    \E rnd \in Streams :
        /\ board = new_board(BoardSide, BoardSide, rnd)
        /\ records = convert_board_to_df(board).val
        /\ layer_data = records
        /\ shown_board = board
        /\ updates = 0
        /\ i = 0
        /\ pc = "process_life"
        /\ call = NoCall

\* for i in range(0, NUM_ITERATIONS): board = process_life(board)
LoopProcessLife ==
    /\ pc = "process_life"
    /\ i < NUM_ITERATIONS
    /\ \E rnd \in Streams :
           \E out \in {process_life(board, rnd)} :
               /\ board' = IF out.exc = "" THEN out.val ELSE board
               /\ pc' = IF out.exc = "" THEN "convert" ELSE "raised"
    /\ UNCHANGED <<records, layer_data, updates, i, shown_board, call>>

\* records = convert_board_to_df(board)
LoopConvert ==
    /\ pc = "convert"
    /\ \E out \in {convert_board_to_df(board)} :
           /\ records' = IF out.exc = "" THEN out.val ELSE records
           /\ pc' = IF out.exc = "" THEN "set_data" ELSE "raised"
    /\ UNCHANGED <<board, layer_data, updates, i, shown_board, call>>

LoopSetData_skipped ==
    /\ pc = "set_data"
    /\ pc' = "update"
    /\ UNCHANGED <<board, records, layer_data, updates, i, shown_board, call>>

\* layer.data = records
LoopSetData ==
    /\ pc = "set_data"
    /\ layer_data' = records
    /\ pc' = "update"
    /\ UNCHANGED <<board, records, updates, i, shown_board, call>>

\* r.update()
LoopUpdate ==
    /\ pc = "update"
    /\ updates' = updates + 1
    /\ pc' = "sleep"
    /\ UNCHANGED <<board, records, layer_data, i, shown_board, call>>

\* time.sleep(0.1), and the loop's next i
LoopSleep ==
    /\ pc = "sleep"
    /\ i' = i + 1
    /\ pc' = "process_life"
    /\ UNCHANGED <<board, records, layer_data, updates, shown_board, call>>

Next ==
    \/ LoopProcessLife
    \/ LoopConvert
    \/ LoopSetData
    \/ LoopUpdate
    \/ LoopSleep

Spec == Init /\ [][Next]_vars

\* ============================================================ properties
\* The eight offsets of a cell's neighbourhood.
Offsets == {o \in {-1, 0, 1} \X {-1, 0, 1} : o # <<0, 0>>}

\* The cell (column, row), counted from 0, that offset o of (x, y) reaches on
\* the torus.
Wrapped(b, x, y, o) == <<(x + o[1]) % Width(b), (y + o[2]) % Height(b)>>

Cell(b, c) == b[c[2] + 1][c[1] + 1]

\* The sum of the board's values at the eight offsets of (x, y), for a board
\* of 0/1 cells: the number of offsets that reach a live cell.
OffsetSum(b, x, y) ==
    Cardinality({o \in Offsets : Cell(b, Wrapped(b, x, y, o)) = 1})

\* The distinct live cells other than (x, y) that an offset of (x, y) reaches.
LiveNeighbourCells(b, x, y) ==
    {c \in {Wrapped(b, x, y, o) : o \in Offsets} :
        c # <<x % Width(b), y % Height(b)>> /\ Cell(b, c) = 1}

\* The next generation of a 0/1 board on the torus (SubSeq makes the rows
\* and the board tuples of values).
NextGeneration(b) ==
    SubSeq([r \in 1..Height(b) |-> SubSeq([c \in 1..Width(b) |->
        LET n == OffsetSum(b, c - 1, r - 1)
        IN  IF (b[r][c] = 1 /\ n \in {2, 3}) \/ (b[r][c] = 0 /\ n = 3)
            THEN 1 ELSE 0], 1, Width(b))], 1, Height(b))

RECURSIVE Generation(_, _)
Generation(b, k) ==
    IF k = 0 THEN b
    ELSE CHOOSE g \in {NextGeneration(p) : p \in {Generation(b, k - 1)}} : TRUE

\* C1: process_life(board) returns, for every rectangular 0/1 board, the next
\* generation on the torus: a cell is 1 exactly when it was 1 with 2 or 3, or
\* 0 with 3, as the sum of the old board's values at its eight offsets.
C1_ProcessLifeNextGeneration ==
    call.fn = "process_life" =>
        /\ call.exc = ""
        /\ board = NextGeneration(call.before)

\* A generation with a birth, a survival and a death.
C1_Witness ==
    /\ call.fn = "process_life"
    /\ call.exc = ""
    /\ \E r \in 1..Height(board), c \in 1..Width(board) :
           call.before[r][c] = 0 /\ board[r][c] = 1
    /\ \E r \in 1..Height(board), c \in 1..Width(board) :
           call.before[r][c] = 1 /\ board[r][c] = 1
    /\ \E r \in 1..Height(board), c \in 1..Width(board) :
           call.before[r][c] = 1 /\ board[r][c] = 0

\* C2: get(board, x, y) returns the cell in row y mod H and column x mod W,
\* the moduli in 0..H-1 and 0..W-1, for all integers x and y, and never
\* raises an out-of-bounds error.
C2_GetWraps ==
    call.fn = "get" =>
        /\ call.ret.exc = ""
        /\ call.y % Height(board) \in 0..(Height(board) - 1)
        /\ call.x % Width(board) \in 0..(Width(board) - 1)
        /\ call.ret.val = board[(call.y % Height(board)) + 1][(call.x % Width(board)) + 1]

\* A get left of column 0 and below the last row that finds a live cell.
C2_Witness ==
    /\ call.fn = "get"
    /\ call.x < 0
    /\ call.y >= Height(board)
    /\ Width(board) > 1
    /\ call.ret.exc = ""
    /\ call.ret.val = 1

\* C3, as stated: on a board of any size, count_neighbors(board, x, y) is the
\* number of distinct live cells other than (x, y) adjacent to it on the torus.
C3_DistinctOnAnyBoard ==
    call.fn = "count_neighbors" =>
        /\ call.ret.exc = ""
        /\ call.ret.val = Cardinality(LiveNeighbourCells(board, call.x, call.y))

\* C3, amended: count_neighbors(board, x, y) is the sum of the board's values
\* at the eight offsets of (x, y) on the torus, a cell counting once for each
\* offset that reaches it; when W >= 3 and H >= 3 that is the number of
\* distinct live cells other than (x, y) adjacent to it.
C3_CountNeighbors ==
    call.fn = "count_neighbors" =>
        /\ call.ret.exc = ""
        /\ call.ret.val = OffsetSum(board, call.x, call.y)
        /\ (Width(board) >= 3 /\ Height(board) >= 3) =>
               call.ret.val = Cardinality(LiveNeighbourCells(board, call.x, call.y))

\* A live cell of a 3 x 3 board with live and dead neighbours.
C3_Witness ==
    /\ call.fn = "count_neighbors"
    /\ Width(board) = 3 /\ Height(board) = 3
    /\ Cell(board, <<call.x, call.y>>) = 1
    /\ call.ret.exc = ""
    /\ call.ret.val = 5

\* C4: the k-th r.update() of the loop is called with layer.data holding the
\* records of the k-th generation after the board first shown, once in each
\* iteration: no generation is skipped, refreshed twice or refreshed stale.
\* (r.update() leaves layer.data as it is, so the state it returns in shows
\* the data it was called with.)
C4_UpdateShowsGeneration ==
    /\ updates = IF pc = "sleep" THEN i + 1 ELSE i
    /\ updates <= NUM_ITERATIONS
    /\ pc = "sleep" =>
           \E out \in {convert_board_to_df(Generation(shown_board, updates))} :
               /\ out.exc = ""
               /\ layer_data = out.val

\* The second refresh, of a board that changed in both generations.
C4_Witness ==
    /\ pc = "sleep"
    /\ updates = 2
    /\ Generation(shown_board, 1) # shown_board
    /\ Generation(shown_board, 2) # Generation(shown_board, 1)
    /\ board = Generation(shown_board, 2)

\* C5: the two-argument convert_board_to_df(board, i) completes without error
\* for every 0/1 board and returns one record per cell with z = i * 1000,
\* PURPLE for a live cell and another colour for a dead one.
C5_StackedCompletes ==
    call.fn = "convert_board_to_df_stacked" =>
        /\ call.exc = ""
        /\ Len(records) = Width(board) * Height(board)
        /\ \A x \in 0..(Width(board) - 1), y \in 0..(Height(board) - 1) :
               LET rec == records[x * Height(board) + y + 1]
               IN  /\ rec.position[3] = <<call.iteration * 1000, 1>>
                   /\ (rec.color = PURPLE) <=> (board[y + 1][x + 1] = 1)

\* C6: the one-argument convert_board_to_df(board) returns W * H records, one
\* per cell, x the outer and y the inner index, the record of (x, y) at
\* position (x / 1000, y / 1000), PURPLE when board[y][x] is 1 and PINK when 0.
C6_ConvertBoard ==
    call.fn = "convert_board_to_df" =>
        /\ call.exc = ""
        /\ Len(records) = Width(board) * Height(board)
        /\ \A x \in 0..(Width(board) - 1), y \in 0..(Height(board) - 1) :
               records[x * Height(board) + y + 1] =
                   [position |-> <<<<x, 1000>>, <<y, 1000>>>>,
                    color |-> IF board[y + 1][x + 1] = 1 THEN PURPLE ELSE PINK]

\* The records of a 3 x 2 board with a live and a dead cell.
C6_Witness ==
    /\ call.fn = "convert_board_to_df"
    /\ Width(board) = 3 /\ Height(board) = 2
    /\ board[1] = <<1, 0, 0>>
    /\ board[2] = <<0, 1, 1>>
    /\ Len(records) = 6
    /\ records[2].color = PINK
    /\ records[4].color = PURPLE

\* C7: assign(board, x, y, v) sets the cell in row y mod H, column x mod W to
\* v, leaves every other cell and the dimensions unchanged, and get(board, x,
\* y) returns v afterwards.
C7_AssignFrame ==
    call.fn = "assign" =>
        /\ call.exc = ""
        /\ Len(board) = Len(call.before)
        /\ \A r \in 1..Len(board) : Len(board[r]) = Len(call.before[r])
        /\ \A r \in 1..Len(board) : \A c \in 1..Len(board[r]) :
               board[r][c] =
                   IF r = (call.y % Len(board)) + 1 /\ c = (call.x % Len(board[1])) + 1
                   THEN call.value
                   ELSE call.before[r][c]
        /\ get(board, call.x, call.y).exc = ""
        /\ get(board, call.x, call.y).val = call.value

\* An assignment of a new value past the right and above the top of a board
\* with several rows and columns.
C7_Witness ==
    /\ call.fn = "assign"
    /\ call.x >= Width(board)
    /\ call.y < 0
    /\ Width(board) > 1 /\ Height(board) > 1
    /\ call.value = 2
    /\ board # call.before

====
